---- MODULE Spec2Model ----
(***************************************************************************)
(* Model of the INE client (src/ine_python/__init__.py): a client object   *)
(* holding one configuration field (endpoint), its request operations      *)
(* (get_functions, get_input, get_series, get_ipc, get_cntr2010), the      *)
(* language setter and the get_tables stub.  The HTTP transport is the     *)
(* environment: every call draws the transport's answer from a set.        *)
(***************************************************************************)
EXTENDS Integers, Sequences, FiniteSets, TLC

VARIABLES
    endpoint,   \* self.endpoint, the configured base URL
    idioma,     \* history: the language code the endpoint was last built from
    request,    \* the last HTTP request handed to requests.get (<<>> if none yet)
    nrequests,  \* history: number of requests.get invocations so far
    call,       \* the last operation called, with its arguments and the transport's answer
    outcome,    \* what that call gave its caller: a returned value or a raised exception
    pending     \* an operation drawn at start-up and not applied yet (function specifications)

vars == <<endpoint, idioma, request, nrequests, call, outcome, pending>>

-----------------------------------------------------------------------------
(* Bounds *)

MaxRequests == 2    \* requests issued in one behaviour of Spec
MaxDates == 2       \* length of an explicit list of dates
MaxData == 2        \* length of a payload's Data array

-----------------------------------------------------------------------------
(* Python values that reach the date / last / geo / series arguments *)

None == [t |-> "None"]
PyStr(s) == [t |-> "str", s |-> s]
PyInt(n) == [t |-> "int", n |-> n]
PySlice(start, stop) == [t |-> "slice", start |-> start, stop |-> stop]
PyList(items) == [t |-> "list", items |-> items]

\* str(v) as an f-string replacement field {v} renders it
Format(v) ==
    IF v.t = "str" THEN v.s
    ELSE IF v.t = "int" THEN ToString(v.n)
    ELSE "None"

\* Python truthiness of a scalar: None, "" and 0 are falsy
Truthy(v) ==
    IF v.t = "str" THEN v.s # ""
    ELSE IF v.t = "int" THEN v.n # 0
    ELSE FALSE

\* sep.join(parts)
RECURSIVE Join(_, _)
Join(parts, sep) ==
    IF Len(parts) = 0 THEN ""
    ELSE IF Len(parts) = 1 THEN parts[1]
    ELSE parts[1] \o sep \o Join(Tail(parts), sep)

\* the empty dict
EmptyDict == [k \in {} |-> None]

-----------------------------------------------------------------------------
(* get_series, lines 100-114: the parameter set *)

\* a mutant: renders a falsy bound as empty (start or '')
EncodeSlice_or(date) ==
    LET init == IF Truthy(date.start) THEN date.start ELSE PyStr("")
        end == IF Truthy(date.stop) THEN date.stop ELSE PyStr("")
    IN  PyStr(Format(init) \o ":" \o Format(end))

\* lines 103-105
EncodeSlice(date) ==
    LET init == IF date.start # None THEN date.start ELSE PyStr("")
        end == IF date.stop # None THEN date.stop ELSE PyStr("")
    IN  PyStr(Format(init) \o ":" \o Format(end))

\* line 107: "date={d}" is a plain string literal, not an f-string
EncodeList(date) ==
    PyStr(Join([i \in 1..Len(date.items) |-> "date={d}"], "&"))

\* lines 102-107
EncodeDate(date) ==
    IF date.t = "slice" THEN EncodeSlice(date)
    ELSE IF date.t = "list" THEN EncodeList(date)
    ELSE date

\* dict.update(dict(key=value)) guarded by "value is not None"
Update(params, key, value) ==
    IF value # None THEN (key :> value) @@ params ELSE params

\* a mutant: the guards test truthiness (if last: / if geo:) instead of "is not None"
BuildParams_truthy(date, last, geo) ==
    LET d == EncodeDate(date)
        p1 == IF d # None THEN ("date" :> d) @@ EmptyDict ELSE EmptyDict
        p2 == IF Truthy(last) THEN ("last" :> last) @@ p1 ELSE p1
    IN  IF Truthy(geo) THEN ("geo" :> geo) @@ p2 ELSE p2

\* lines 100-114
BuildParams(date, last, geo) ==
    Update(Update(Update(EmptyDict, "date", EncodeDate(date)), "last", last), "geo", geo)

-----------------------------------------------------------------------------
(* The transport's answer and the JSON it carries *)

\* what a call gives its caller: value is <<v>> for a returned v, <<>> otherwise
Return(v) == [kind |-> "return", error |-> "", value |-> <<v>>]
Raise(e) == [kind |-> "raise", error |-> e, value |-> <<>>]

\* JSON values: an object is a function on its member names, an array a sequence
Obj(members) == [t |-> "object", members |-> members]
Arr(items) == [t |-> "array", items |-> items]

\* an HTTP response with a status and a body text that is valid JSON or not
Response(status, valid, value) ==
    [error |-> "", status |-> status, text |-> [valid |-> valid, value |-> value]]

\* no response: requests.get raises (connection refused, DNS failure, ...)
NetworkDown ==
    [error |-> "ConnectionError", status |-> 0, text |-> [valid |-> FALSE, value |-> Arr(<<>>)]]

\* requests.get(url, params=..., verify=False), lines 45 and 84: the Response
\* object is returned whatever its status (raise_for_status is never called)
requests_get(url, params, resp) ==
    IF resp.error # "" THEN Raise(resp.error) ELSE Return(resp)

\* json.loads(r.text), lines 46 and 85
json_loads(text) ==
    IF text.valid THEN Return(text.value) ELSE Raise("ValueError")

\* the arguments of one requests.get invocation
HttpGet(url, params) == [url |-> url, params |-> params, verify |-> FALSE]

-----------------------------------------------------------------------------
(* get_input, lines 83-86: the requests it sends and what it gives back *)

\* a mutant: one more attempt after a failed one
get_input_call_retry(input_str, kwargs, resp) ==
    LET endpoint_input == endpoint \o "/" \o input_str
        r == requests_get(endpoint_input, kwargs, resp)
        result == IF r.kind = "raise" THEN r ELSE json_loads(r.value[1].text)
    IN  [sent |-> IF result.kind = "raise"
                  THEN <<HttpGet(endpoint_input, kwargs), HttpGet(endpoint_input, kwargs)>>
                  ELSE <<HttpGet(endpoint_input, kwargs)>>,
         result |-> result]

\* a mutant: the URL is built from the constructor's language, not from self.endpoint
get_input_call_es(input_str, kwargs, resp) ==
    LET endpoint_input == "https://servicios.ine.es/wstempus/js/ES" \o "/" \o input_str
        r == requests_get(endpoint_input, kwargs, resp)
    IN  [sent |-> <<HttpGet(endpoint_input, kwargs)>>,
         result |-> IF r.kind = "raise" THEN r ELSE json_loads(r.value[1].text)]

\* lines 83-86
get_input_call(input_str, kwargs, resp) ==
    LET endpoint_input == endpoint \o "/" \o input_str
        r == requests_get(endpoint_input, kwargs, resp)
    IN  [sent |-> <<HttpGet(endpoint_input, kwargs)>>,
         result |-> IF r.kind = "raise" THEN r ELSE json_loads(r.value[1].text)]

-----------------------------------------------------------------------------
(* get_series, lines 117-119: the data frame built from the payload *)

NaN == [nan |-> TRUE]
NaT == [nat |-> TRUE]
Float(n) == [float |-> n]
Datetime(ms) == [ms |-> ms]

Digits == <<"0", "1", "2", "3", "4", "5", "6", "7", "8", "9">>
IsDigit(c) == \E d \in 1..10 : Digits[d] = c
DigitValue(c) == (CHOOSE d \in 1..10 : Digits[d] = c) - 1

\* float(s) of a string given as its characters: the decimal value of a digit string
RECURSIVE ParseDigits(_, _)
ParseDigits(chars, acc) ==
    IF Len(chars) = 0 THEN acc
    ELSE ParseDigits(Tail(chars), 10 * acc + DigitValue(chars[1]))

Parseable(raw) ==
    \/ "num" \in DOMAIN raw
    \/ /\ Len(raw.str) > 0
       /\ \A i \in 1..Len(raw.str) : IsDigit(raw.str[i])

\* one cell cast to float64: a JSON number or a numeric JSON string
ToFloat(raw) ==
    IF "num" \in DOMAIN raw THEN Float(raw.num) ELSE Float(ParseDigits(raw.str, 0))

\* pd.DataFrame(rows): the columns are the union of the rows' keys
Columns(rows) == UNION {DOMAIN rows[i] : i \in 1..Len(rows)}

\* [["Fecha", "Valor"]].astype(dtype).set_index("Fecha"): one record per row, in
\* the rows' order; a key missing from a row is a NaN cell, cast to NaT / NaN
Frame(rows) ==
    [i \in 1..Len(rows) |->
        [Fecha |-> IF "Fecha" \in DOMAIN rows[i] THEN Datetime(rows[i].Fecha) ELSE NaT,
         Valor |-> IF "Valor" \in DOMAIN rows[i] THEN ToFloat(rows[i].Valor) ELSE NaN]]

\* lines 117-119
Decode(series_dict) ==
    IF series_dict.t # "object" THEN Raise("TypeError")
    ELSE IF "Data" \notin DOMAIN series_dict.members THEN Raise("KeyError")
    ELSE LET rows == series_dict.members["Data"]
         IN  IF ~({"Fecha", "Valor"} \subseteq Columns(rows)) THEN Raise("KeyError")
             ELSE IF \E i \in 1..Len(rows) :
                        "Valor" \in DOMAIN rows[i] /\ ~Parseable(rows[i].Valor)
                  THEN Raise("ValueError")
                  ELSE Return(Frame(rows))

-----------------------------------------------------------------------------
(* The operations of the client *)

BaseUrl(language) == "https://servicios.ine.es/wstempus/js/" \o language

\* what every request operation does with the requests it sent
Sent(sent) ==
    /\ request' = sent[Len(sent)]
    /\ nrequests' = nrequests + Len(sent)

\* lines 16-23
set_language(language) ==
    /\ endpoint' = BaseUrl(language)
    /\ idioma' = language
    /\ call' = [op |-> "set_language", language |-> language]
    /\ UNCHANGED <<request, nrequests, outcome>>

\* lines 44-47; pd.DataFrame(r_dict) wraps the parsed body
get_functions(function, resp) ==
    LET endpoint_function == endpoint \o "/" \o function
        r == requests_get(endpoint_function, EmptyDict, resp)
        r_dict == IF r.kind = "raise" THEN r ELSE json_loads(r.value[1].text)
    IN  /\ Sent(<<HttpGet(endpoint_function, EmptyDict)>>)
        /\ outcome' = IF r_dict.kind = "raise" THEN r_dict
                      ELSE Return([DataFrame |-> r_dict.value[1]])
        /\ call' = [op |-> "get_functions", function |-> function, resp |-> resp]
        /\ UNCHANGED <<endpoint, idioma>>

\* lines 49-86
get_input(input_str, kwargs, resp) ==
    LET c == get_input_call(input_str, kwargs, resp)
    IN  /\ Sent(c.sent)
        /\ outcome' = c.result
        /\ call' = [op |-> "get_input", input_str |-> input_str, kwargs |-> kwargs,
                    resp |-> resp]
        /\ UNCHANGED <<endpoint, idioma>>

\* lines 100-119: the body of get_series
series_call(series, date, last, geo, resp) ==
    LET params == BuildParams(date, last, geo)
        c == get_input_call("DATOS_SERIE/" \o Format(series), params, resp)
    IN  /\ Sent(c.sent)
        /\ outcome' = IF c.result.kind = "raise" THEN c.result
                      ELSE Decode(c.result.value[1])
        /\ UNCHANGED <<endpoint, idioma>>

\* the arguments a series operation was called with
SeriesCall(op, series, date, last, geo, resp) ==
    [op |-> op, series |-> series, date |-> date, last |-> last, geo |-> geo,
     resp |-> resp]

\* lines 88-119
get_series(series, date, last, geo, resp) ==
    /\ series_call(series, date, last, geo, resp)
    /\ call' = SeriesCall("get_series", series, date, last, geo, resp)

\* a mutant: the date is forwarded as given
ipc_date_forward(date) == date

\* lines 124-125
ipc_date(date) ==
    IF date = None THEN PySlice(PyStr("20000101"), None) ELSE date

\* lines 123-126
get_ipc(date, last, geo, resp) ==
    /\ series_call(PyStr("IPC206449"), ipc_date(date), last, geo, resp)
    /\ call' = SeriesCall("get_ipc", PyStr("IPC206449"), date, last, geo, resp)

\* lines 128-129
get_cntr2010(date, last, geo, resp) ==
    /\ series_call(PyInt(30024), date, last, geo, resp)
    /\ call' = SeriesCall("get_cntr2010", PyInt(30024), date, last, geo, resp)

\* lines 131-132: the function takes no parameter, so a call that binds the
\* instance (nargs = 1, self.get_tables()) fails before the body runs; only
\* the call on the class (nargs = 0, INE.get_tables()) reaches the raise
get_tables(nargs) ==
    /\ outcome' = IF nargs # 0 THEN Raise("TypeError") ELSE Raise("NotImplementedError")
    /\ call' = [op |-> "get_tables", nargs |-> nargs]
    /\ UNCHANGED <<endpoint, idioma, request, nrequests>>

-----------------------------------------------------------------------------
(* The inputs the operations are called with *)

Languages == {"ES", "EN"}
Functions == {"OPERACIONES_DISPONIBLES", "VARIABLES"}
SeriesIds == {PyStr("IPC206449"), PyInt(30024)}
Lasts == {None, PyInt(1), PyInt(5)}
Geos == {None, PyInt(0), PyInt(1)}

\* sequences over S of length at most n
SeqUpTo(S, n) == UNION {[1..k -> S] : k \in 0..n}

\* the bounds of a slice: absent, falsy ("" and 0) and ordinary dates
SliceBounds == {None, PyStr(""), PyInt(0), PyStr("20000101"), PyStr("20201231")}
Slices == {PySlice(a, b) : a \in SliceBounds, b \in SliceBounds}
DateLists == {PyList(l) : l \in SeqUpTo({PyStr("20200101"), PyStr("20200201")}, MaxDates)}
DateStrings == {PyStr("20200101"), PyStr("20201231"), PyStr("")}
Dates == {None} \cup DateStrings \cup Slices \cup DateLists

\* the elements of a Data array, their Fecha an integer timestamp: Fecha and Valor each present or missing, Valor a
\* number, a numeric string or an unparseable string, other members present or not
FechaMembers == {EmptyDict} \cup {("Fecha" :> ms) : ms \in {946684800, 949363200}}
ValorMembers == {EmptyDict} \cup
    {("Valor" :> v) : v \in {[num |-> 100], [str |-> <<"1", "5">>], [str |-> <<"x">>]}}
OtherMembers == {EmptyDict, ("Secreto" :> FALSE)}
Elements == {f @@ v @@ o : f \in FechaMembers, v \in ValorMembers, o \in OtherMembers}

WellFormed(e) ==
    /\ "Fecha" \in DOMAIN e
    /\ "Valor" \in DOMAIN e
    /\ Parseable(e.Valor)

\* JSON bodies of the series endpoint: with a Data array, without one, or an array
Payloads ==
    {Obj("Data" :> d) : d \in SeqUpTo(Elements, MaxData)}
        \cup {Obj("Nombre" :> "IPC"), Arr(<<>>)}

\* the payload of spec.md section 8, scenario 6
TwoRecords ==
    Obj("Data" :> <<("Fecha" :> 946684800) @@ ("Valor" :> [num |-> 100]),
                    ("Fecha" :> 949363200) @@ ("Valor" :> [str |-> <<"1", "5">>])>>)

\* the transport's answers to a call of the client
Responses ==
    {NetworkDown}
        \cup {Response(st, FALSE, Arr(<<>>)) : st \in {200, 404}}
        \cup {Response(200, TRUE, v) : v \in {TwoRecords, Obj("Data" :> <<>>), Arr(<<>>)}}
        \cup {Response(404, TRUE, TwoRecords)}

\* the date arguments and keyword arguments of the client's behaviours
SomeDates ==
    {None, PyStr("20200101"), PySlice(PyStr("20000101"), None),
     PyList(<<PyStr("20200101")>>)}
SomeKwargs == {EmptyDict, ("last" :> PyInt(5))}
SomeInputs == {"DATOS_SERIE/IPC206449", "OPERACIONES_DISPONIBLES"}

-----------------------------------------------------------------------------
(* The client: any sequence of operations on one instance *)

Idle == [op |-> "none"]

\* lines 8-14
Init ==
    /\ idioma = "ES"
    /\ endpoint = BaseUrl(idioma)
    /\ request = EmptyDict
    /\ nrequests = 0
    /\ call = [op |-> "__init__"]
    /\ outcome = Return(None)
    /\ pending = Idle

Next ==
    \/ \E language \in Languages :
          set_language(language) /\ UNCHANGED pending
    \/ \E nargs \in {0, 1} :
          get_tables(nargs) /\ UNCHANGED pending
    \/ /\ nrequests < MaxRequests
       /\ \E function \in Functions, resp \in Responses :
             get_functions(function, resp) /\ UNCHANGED pending
    \/ /\ nrequests < MaxRequests
       /\ \E input_str \in SomeInputs, kwargs \in SomeKwargs, resp \in Responses :
             get_input(input_str, kwargs, resp) /\ UNCHANGED pending
    \/ /\ nrequests < MaxRequests
       /\ \E series \in SeriesIds, date \in SomeDates, last \in {None, PyInt(5)},
             geo \in {None, PyInt(1)}, resp \in Responses :
             get_series(series, date, last, geo, resp) /\ UNCHANGED pending
    \/ /\ nrequests < MaxRequests
       /\ \E date \in SomeDates, last \in {None, PyInt(5)}, geo \in {None, PyInt(1)},
             resp \in Responses :
             get_ipc(date, last, geo, resp) /\ UNCHANGED pending
    \/ /\ nrequests < MaxRequests
       /\ \E date \in SomeDates, last \in {None, PyInt(5)}, geo \in {None, PyInt(1)},
             resp \in Responses :
             get_cntr2010(date, last, geo, resp) /\ UNCHANGED pending

Spec == Init /\ [][Next]_vars

-----------------------------------------------------------------------------
(* The parameter encoder and the response decoder as functions: one call,  *)
(* drawn at start-up, applied to a fresh client                            *)

OkResponse == Response(200, TRUE, TwoRecords)

EncodeCalls ==
    {SeriesCall("get_series", series, date, last, geo, OkResponse) :
        series \in SeriesIds, date \in Dates, last \in Lasts, geo \in Geos}
    \cup {SeriesCall("get_ipc", PyStr("IPC206449"), date, last, geo, OkResponse) :
        date \in Dates, last \in Lasts, geo \in Geos}
    \cup {SeriesCall("get_cntr2010", PyInt(30024), date, last, geo, OkResponse) :
        date \in Dates, last \in Lasts, geo \in Geos}

DecodeCalls ==
    {SeriesCall("get_series", PyStr("IPC206449"), PySlice(PyStr("20000101"), None),
                None, None, Response(200, TRUE, payload)) : payload \in Payloads}

Fresh ==
    /\ idioma = "ES"
    /\ endpoint = BaseUrl(idioma)
    /\ request = EmptyDict
    /\ nrequests = 0
    /\ call = [op |-> "__init__"]
    /\ outcome = Return(None)

apply_get_series ==
    /\ pending.op = "get_series"
    /\ get_series(pending.series, pending.date, pending.last, pending.geo, pending.resp)
    /\ pending' = Idle

apply_get_ipc ==
    /\ pending.op = "get_ipc"
    /\ get_ipc(pending.date, pending.last, pending.geo, pending.resp)
    /\ pending' = Idle

apply_get_cntr2010 ==
    /\ pending.op = "get_cntr2010"
    /\ get_cntr2010(pending.date, pending.last, pending.geo, pending.resp)
    /\ pending' = Idle

InitEncode == Fresh /\ pending \in EncodeCalls
NextEncode == apply_get_series \/ apply_get_ipc \/ apply_get_cntr2010
SpecEncode == InitEncode /\ [][NextEncode]_vars

InitDecode == Fresh /\ pending \in DecodeCalls
NextDecode == apply_get_series
SpecDecode == InitDecode /\ [][NextDecode]_vars

-----------------------------------------------------------------------------
(* Properties *)

IsSeriesCall == call.op \in {"get_series", "get_ipc", "get_cntr2010"}
SeriesUrl(series) == BaseUrl(idioma) \o "/DATOS_SERIE/" \o series

\* Python's "v or ''"
OrEmpty(v) == IF Truthy(v) THEN v ELSE PyStr("")
\* "v if v is not None else ''"
NoneAsEmpty(v) == IF v = None THEN PyStr("") ELSE v

\* C1 as stated: a slice (start, end) passed to get_series gives a date parameter
\* equal to f"{start or ''}:{end or ''}", also for falsy bounds such as 0 and "".
C1_SliceDateOr ==
    (call.op = "get_series" /\ call.date.t = "slice") =>
        /\ "date" \in DOMAIN request.params
        /\ request.params["date"] =
              PyStr(Format(OrEmpty(call.date.start)) \o ":" \o Format(OrEmpty(call.date.stop)))

\* C1 amended: a slice (start, end) passed to get_series gives a date parameter
\* whose value is start and end rendered as text around a colon, where only an
\* absent (None) bound is rendered empty; a falsy bound that is not None is
\* rendered as itself (0 as "0", "" as "").
C1_SliceDate ==
    (call.op = "get_series" /\ call.date.t = "slice") =>
        /\ "date" \in DOMAIN request.params
        /\ request.params["date"] =
              PyStr(Format(NoneAsEmpty(call.date.start)) \o ":"
                        \o Format(NoneAsEmpty(call.date.stop)))

C1_Witness ==
    /\ call.op = "get_series"
    /\ call.date = PySlice(PyInt(0), None)
    /\ request.params["date"] = PyStr("0:")

\* C2: a non-empty list of dates passed to get_series gives a date parameter made
\* of the elements' values, in the list's order, joined with "&date=".
C2_ListDate ==
    (call.op = "get_series" /\ call.date.t = "list" /\ Len(call.date.items) > 0) =>
        /\ "date" \in DOMAIN request.params
        /\ request.params["date"] =
              PyStr(Join([i \in 1..Len(call.date.items) |-> Format(call.date.items[i])],
                         "&date="))

\* C3: with date absent or a single string, last absent or a positive integer and
\* geo absent or 0/1, the parameters sent by get_series are exactly the non-absent
\* arguments among date, last and geo, each under its own key and unchanged.
C3_ParamKeys ==
    (call.op = "get_series" /\ call.date.t \in {"None", "str"}) =>
        LET arg == [date |-> call.date, last |-> call.last, geo |-> call.geo]
        IN  request.params = [k \in {k \in {"date", "last", "geo"} : arg[k] # None} |-> arg[k]]

C3_Witness ==
    /\ call.op = "get_series"
    /\ call.date = None /\ call.last = PyInt(5) /\ call.geo = PyInt(1)
    /\ request.params = [geo |-> PyInt(1), last |-> PyInt(5)]

\* a valid JSON object with a Data array reached the decoder of a series call
HasData ==
    /\ IsSeriesCall
    /\ call.resp.error = ""
    /\ call.resp.text.valid
    /\ call.resp.text.value.t = "object"
    /\ "Data" \in DOMAIN call.resp.text.value.members

Data == call.resp.text.value.members["Data"]

\* C4: a Data array of k well-formed elements decodes to exactly k records, record
\* i carrying element i's Fecha as timestamp and Valor as value and nothing else.
C4_OrderPreserving ==
    (HasData /\ \A i \in 1..Len(Data) : WellFormed(Data[i])) =>
        /\ outcome.kind = "return"
        /\ Len(outcome.value[1]) = Len(Data)
        /\ \A i \in 1..Len(Data) :
              outcome.value[1][i] =
                  [Fecha |-> Datetime(Data[i].Fecha), Valor |-> ToFloat(Data[i].Valor)]

\* C5: decoding fails when the payload has no Data member or any single element
\* lacks Fecha or Valor; a missing field never becomes a default in a returned record.
C5_MissingFieldFails ==
    (/\ IsSeriesCall
     /\ call.resp.error = ""
     /\ call.resp.text.valid
     /\ call.resp.text.value.t = "object"
     /\ \/ "Data" \notin DOMAIN call.resp.text.value.members
        \/ \E i \in 1..Len(Data) : ~({"Fecha", "Valor"} \subseteq DOMAIN Data[i]))
        => outcome.kind = "raise"

\* C6: get_tables called on an instance fails with NotImplementedError and with no
\* other error.
C6_NotImplemented ==
    (call.op = "get_tables" /\ call.nargs = 1) => outcome = Raise("NotImplementedError")

\* the endpoint path of a request operation
Path(c) ==
    IF c.op = "get_functions" THEN c.function
    ELSE IF c.op = "get_input" THEN c.input_str
    ELSE "DATOS_SERIE/" \o Format(c.series)

\* C7: every request's URL is the base URL of the most recently set language
\* (initially "ES"), a "/" and the endpoint path; request operations never change
\* the configured base URL; set_language changes nothing but that base URL, so what
\* earlier calls returned stays as it was.
C7_LanguagePrefix ==
    [][/\ nrequests' # nrequests =>
             /\ request'.url = BaseUrl(idioma) \o "/" \o Path(call')
             /\ endpoint' = endpoint
             /\ idioma' = idioma
       /\ idioma' # idioma =>
             /\ endpoint' = BaseUrl(idioma')
             /\ UNCHANGED <<request, nrequests, outcome>>]_vars

C7_Witness ==
    /\ idioma = "EN"
    /\ call.op = "get_cntr2010"
    /\ request.url = "https://servicios.ine.es/wstempus/js/EN/DATOS_SERIE/30024"

\* C8: get_input returns a JSON value only for a 2xx response with a valid JSON
\* body; a network failure, a non-2xx status or an invalid body makes it fail.
C8_StatusChecked ==
    call.op = "get_input" =>
        (outcome.kind = "return" <=>
            /\ call.resp.error = ""
            /\ call.resp.status \in 200..299
            /\ call.resp.text.valid)

\* C9: a call of a public operation issues at most one HTTP request; a transport
\* or decoding failure is not retried, reaches the caller as it was raised and
\* leaves the caller with no value.
C9_OneRequest ==
    [][/\ nrequests' \in {nrequests, nrequests + 1}
       /\ nrequests' # nrequests =>
             /\ call'.resp.error # "" => outcome' = Raise(call'.resp.error)
             /\ (call'.resp.error = "" /\ ~call'.resp.text.valid) =>
                    outcome' = Raise("ValueError")
             /\ outcome'.kind = "raise" => outcome'.value = <<>>]_vars

C9_Witness ==
    /\ nrequests = 2
    /\ call.op = "get_ipc"
    /\ call.resp = NetworkDown
    /\ outcome = Raise("ConnectionError")

\* C10: get_ipc always sends a date parameter: with its date argument absent it
\* queries series IPC206449 with date "20000101:" (whatever last and geo are), and
\* a supplied date goes to get_series with last and geo as given; get_cntr2010
\* forwards an absent date as absent, so its request has no date key.
C10_IpcDefaultDate ==
    /\ call.op = "get_ipc" =>
          /\ request.url = SeriesUrl("IPC206449")
          /\ "date" \in DOMAIN request.params
          /\ call.date = None =>
                request.params =
                    Update(Update("date" :> PyStr("20000101:"), "last", call.last),
                           "geo", call.geo)
          /\ call.date # None =>
                request.params = BuildParams(call.date, call.last, call.geo)
    /\ (call.op = "get_cntr2010" /\ call.date = None) =>
          /\ request.url = SeriesUrl("30024")
          /\ "date" \notin DOMAIN request.params

C10_Witness ==
    /\ call.op = "get_ipc"
    /\ call.date = None /\ call.last = PyInt(5) /\ call.geo = None
    /\ request.params = [date |-> PyStr("20000101:"), last |-> PyInt(5)]

====
